---- MODULE Spec2Model ----
(***************************************************************************)
(* Model of the CIM hierarchical topology of cim_network_mcp:              *)
(* CimTopologyBuilder (cim_topology.py) building a CimTopology object of   *)
(* four tier maps, as a state machine over a heap of topology objects.     *)
(*                                                                         *)
(* Python values are modelled as follows.                                  *)
(*   dict            a sequence of entries [k |-> key, v |-> value] in     *)
(*                   insertion order (Python dicts keep insertion order)   *)
(*   set             a set                                                 *)
(*   Optional[X]     a set of at most one element: {} is None, {x} is x    *)
(*   object          an index into the sequence heap; two names for the    *)
(*                   same object hold the same index                       *)
(*   uuid.uuid4()    the next value of a counter of issued uuids           *)
(* The opaque settings of the configuration objects (auth_config,          *)
(* rate_limits, nats_leaf, event_store_config, ...) are never read or      *)
(* written by the operations modelled here and are left out.               *)
(***************************************************************************)
EXTENDS Integers, Sequences, FiniteSets, TLC

VARIABLES
    heap,       \* the topology objects, by reference
    builder,    \* the reference held by builder.topology, 0 before construction
    returned,   \* the references handed back by build(), in call order
    uuids,      \* how many uuid4 values have been issued
    preferred_given, \* whether any with_client call so far named a preferred leaf
    last,       \* the most recent call and the exception it raised
    cim_topology,  \* CimMCPServer.cim_topology: None or the live topology
    event_chain,   \* CimMCPServer.event_chain: the events appended so far
    clock,         \* the wall clock read by datetime.utcnow(), in microseconds
    response,      \* the result of the latest execute_cim_command call
    created,       \* the latest two CimEvent.create calls: arguments, clock reads, event
    vector_clock,  \* VectorClock.clocks of the clock under test
    subject,       \* a CimTopology value whose fields a caller edits directly
    tier_summary,  \* what get_tier_summary returned for subject, None before a call
    running,       \* whether the loop of main is still running
    line,          \* the local variable line of main: None before the first read
    request,       \* the local variable request of main: None while unbound
    stdout,        \* the lines main has printed
    sdn_added,     \* the node ids add_sdn_node has reported success for
    sdn_response   \* the result of the latest execute_sdn_command call

vars == <<heap, builder, returned, uuids, preferred_given, last,
          cim_topology, event_chain, clock, response, created,
          vector_clock, subject, tier_summary, running, line, request, stdout,
          sdn_added, sdn_response>>

\* The state of the vector clock, of the summarised topology value, of the
\* main loop and of the SDN server.
other_vars == <<vector_clock, subject, tier_summary, running, line, request, stdout,
                sdn_added, sdn_response>>

\* The state of the CIM server and of the event factory.
server_vars == <<cim_topology, event_chain, clock, response, created>>

\* The state of a CimTopologyBuilder program.
builder_vars == <<heap, builder, returned, preferred_given, last>>

(* ---------------------------------------------------------------- bounds *)

\* with_client calls are explored while fewer than MaxClients + 1 uuids
\* have been issued (one for the topology id, the rest for client ids).
MaxClients == 10

\* build() calls explored per builder.
MaxBuilds == 2

(* ------------------------------------------------------ program constants *)

\* range(3): leaves per regional cluster of the production preset.
LeavesPerCluster == 3

regions == <<"us-east", "us-west", "eu-west">>

(* ----------------------------------------------------------------- inputs *)

TopologyNames == {"cim"}

\* (name, client_type) pairs handed to with_client.
ClientKinds == {<<"Developer CLI", "cli">>}

None == {}

Some(x) == {x}

TheValue(opt) == CHOOSE x \in opt : TRUE

\* preferred_leaf arguments: None, the development leaf, a production leaf.
\* Each LeafId is unknown to the topologies of the other preset.
PreferredLeaves == {None, Some("dev-leaf"), Some("us-west-leaf-2")}

(* ------------------------------------------------------------ Python dict *)

DictKeys(d) == [i \in 1..Len(d) |-> d[i].k]

DictKeySet(d) == {d[i].k : i \in 1..Len(d)}

DictHas(d, key) == key \in DictKeySet(d)

DictIndex(d, key) == CHOOSE i \in 1..Len(d) : d[i].k = key

DictGet(d, key) == d[DictIndex(d, key)].v

\* d[key] = value: replaces in place when the key is present, appends otherwise.
DictSet(d, key, value) ==
    IF DictHas(d, key)
    THEN [d EXCEPT ![DictIndex(d, key)] = [k |-> key, v |-> value]]
    ELSE Append(d, [k |-> key, v |-> value])

(* --------------------------------------------------------------- topology *)

\* CimTopology(topology_id=TopologyId()): empty maps, version 0.
CimTopology(topology_id) ==
    [topology_id    |-> topology_id,
     super_clusters |-> << >>,
     clusters       |-> << >>,
     leaves         |-> << >>,
     clients        |-> << >>,
     nats_config    |-> "default",
     version        |-> 0]

ClientConfig(client_id, name, client_type, assigned_leaf) ==
    [client_id     |-> client_id,
     name          |-> name,
     client_type   |-> client_type,
     assigned_leaf |-> assigned_leaf]

LeafConfig(leaf_id, name, cluster) ==
    [leaf_id          |-> leaf_id,
     name             |-> name,
     cluster          |-> cluster,
     assigned_clients |-> {}]

ClusterConfig(cluster_id, name, domain, super_cluster) ==
    [cluster_id     |-> cluster_id,
     name           |-> name,
     domain         |-> domain,
     super_cluster  |-> super_cluster,
     managed_leaves |-> {}]

SuperClusterConfig(super_id, name) ==
    [super_id         |-> super_id,
     name             |-> name,
     managed_clusters |-> {}]

(* ---------------------------------------------------------------- presets *)

\* The topology of the builder returned by CimTopologyBuilder.development(name).
development(name, topology_id) ==
    LET super_id     == "dev-super"
        cluster_id   == "dev-cluster"
        leaf_id      == "dev-leaf"
        super_config == [SuperClusterConfig(super_id, name \o " Development Super-cluster")
                            EXCEPT !.managed_clusters = @ \cup {cluster_id}]
        cluster_config == [ClusterConfig(cluster_id, name \o " Development Cluster",
                                         "development", super_id)
                            EXCEPT !.managed_leaves = @ \cup {leaf_id}]
        leaf_config  == LeafConfig(leaf_id, name \o " Development Leaf", cluster_id)
        t            == CimTopology(topology_id)
    IN  [t EXCEPT !.super_clusters = DictSet(@, super_id, super_config),
                  !.clusters       = DictSet(@, cluster_id, cluster_config),
                  !.leaves         = DictSet(@, leaf_id, leaf_config),
                  !.nats_config    = "development"]

\* str.title() on the region names of the production preset.
Title(region) ==
    CASE region = "us-east" -> "Us-East"
      [] region = "us-west" -> "Us-West"
      [] region = "eu-west" -> "Eu-West"

\* production_leaves without cluster_config.managed_leaves.add(leaf_id).
RECURSIVE production_leaves_unwired(_, _, _, _, _)
production_leaves_unwired(acc, name, region, i, n) ==
    IF i >= n THEN acc
    ELSE LET leaf_id     == region \o "-leaf-" \o ToString(i + 1)
             leaf_config == LeafConfig(leaf_id,
                                       name \o " " \o Title(region) \o " Leaf " \o ToString(i + 1),
                                       acc.cluster_config.cluster_id)
         IN  production_leaves_unwired(
                 [leaves         |-> DictSet(acc.leaves, leaf_id, leaf_config),
                  cluster_config |-> acc.cluster_config],
                 name, region, i + 1, n)

\* for i in range(n): the leaves of one region, added to the leaves map and to
\* the cluster's managed_leaves. acc = [leaves, cluster_config].
RECURSIVE production_leaves(_, _, _, _, _)
production_leaves(acc, name, region, i, n) ==
    IF i >= n THEN acc
    ELSE LET leaf_id     == region \o "-leaf-" \o ToString(i + 1)
             leaf_config == LeafConfig(leaf_id,
                                       name \o " " \o Title(region) \o " Leaf " \o ToString(i + 1),
                                       acc.cluster_config.cluster_id)
         IN  production_leaves(
                 [leaves         |-> DictSet(acc.leaves, leaf_id, leaf_config),
                  cluster_config |-> [acc.cluster_config
                                         EXCEPT !.managed_leaves = @ \cup {leaf_id}]],
                 name, region, i + 1, n)

\* for region in regions: one cluster with its leaves per region.
\* acc = [topology, super_config].
RECURSIVE production_regions(_, _, _)
production_regions(acc, name, r) ==
    IF r > Len(regions) THEN acc
    ELSE LET region     == regions[r]
             cluster_id == region \o "-cluster"
             cluster0   == ClusterConfig(cluster_id, name \o " " \o Title(region) \o " Cluster",
                                         region, acc.super_config.super_id)
             done       == production_leaves([leaves |-> acc.topology.leaves,
                                              cluster_config |-> cluster0],
                                             name, region, 0, LeavesPerCluster)
         IN  production_regions(
                 [topology     |-> [acc.topology
                                       EXCEPT !.leaves   = done.leaves,
                                              !.clusters = DictSet(@, cluster_id,
                                                                   done.cluster_config)],
                  super_config |-> [acc.super_config
                                       EXCEPT !.managed_clusters = @ \cup {cluster_id}]],
                 name, r + 1)

\* The topology of the builder returned by CimTopologyBuilder.production(name).
production(name, topology_id) ==
    LET super_id == "prod-super"
        super0   == SuperClusterConfig(super_id, name \o " Production Super-cluster")
        done     == production_regions([topology     |-> CimTopology(topology_id),
                                        super_config |-> super0], name, 1)
    IN  [done.topology EXCEPT !.super_clusters = DictSet(@, super_id, done.super_config),
                              !.nats_config    = "production"]

(* ------------------------------------------------------------ with_client *)

\* The round-robin branch of assign_leaf.
round_robin(t, index) ==
    LET leaves == DictKeys(t.leaves)
    IN  IF Len(leaves) > 0
        THEN Some(leaves[(index % Len(leaves)) + 1])
        ELSE None

\* assign_leaf without the test that the preferred leaf is a key of leaves.
assign_leaf_unchecked(t, preferred_leaf) ==
    IF preferred_leaf # None
    THEN preferred_leaf
    ELSE round_robin(t, Len(t.clients))

\* assign_leaf rotating on the client count plus one.
assign_leaf_off_by_one(t, preferred_leaf) ==
    IF preferred_leaf # None /\ DictHas(t.leaves, TheValue(preferred_leaf))
    THEN preferred_leaf
    ELSE round_robin(t, Len(t.clients) + 1)

\* assign_leaf choosing the first leaf with the fewest clients instead of
\* rotating on the client count.
assign_leaf_least_loaded(t, preferred_leaf) ==
    IF preferred_leaf # None /\ DictHas(t.leaves, TheValue(preferred_leaf))
    THEN preferred_leaf
    ELSE IF Len(t.leaves) = 0 THEN None
    ELSE LET load(i) == Cardinality(t.leaves[i].v.assigned_clients)
             least   == CHOOSE i \in 1..Len(t.leaves) :
                            \A j \in 1..Len(t.leaves) :
                                load(i) < load(j) \/ (load(i) = load(j) /\ i <= j)
         IN  Some(t.leaves[least].k)

\* assign_leaf raising on a preferred leaf that is no key of leaves.
assign_leaf_strict(t, preferred_leaf) ==
    IF preferred_leaf # None
    THEN IF DictHas(t.leaves, TheValue(preferred_leaf)) THEN preferred_leaf ELSE None
    ELSE round_robin(t, Len(t.clients))

\* assign_leaf that never looks at the preferred leaf.
assign_leaf_ignores_preference(t, preferred_leaf) ==
    round_robin(t, Len(t.clients))

\* with_client always taking the first leaf when no preference is usable.
assign_leaf_first_leaf(t, preferred_leaf) ==
    IF preferred_leaf # None /\ DictHas(t.leaves, TheValue(preferred_leaf))
    THEN preferred_leaf
    ELSE IF Len(t.leaves) > 0 THEN Some(DictKeys(t.leaves)[1]) ELSE None

\* "Assign to leaf (prefer specified, otherwise round-robin)": the LeafId the
\* new client is assigned to, or None where the code raises ValueError.
assign_leaf(t, preferred_leaf) ==
    IF preferred_leaf # None /\ DictHas(t.leaves, TheValue(preferred_leaf))
    THEN preferred_leaf
    ELSE LET leaves == DictKeys(t.leaves)
         IN  IF Len(leaves) > 0
             THEN Some(leaves[(Len(t.clients) % Len(leaves)) + 1])
             ELSE None

\* attach_client where every LeafConfig shares one assigned_clients set.
attach_client_shared_set(t, client_config) ==
    LET t1 == [t EXCEPT !.clients = DictSet(@, client_config.client_id, client_config)]
    IN  IF DictHas(t1.leaves, client_config.assigned_leaf)
        THEN [topology |-> [t1 EXCEPT !.leaves =
                                [i \in 1..Len(@) |->
                                    [@[i] EXCEPT !.v.assigned_clients
                                                     = @ \cup {client_config.client_id}]]],
              raised   |-> None]
        ELSE [topology |-> t1, raised |-> Some("KeyError")]

\* self.topology.clients[client_id] = client_config, then
\* self.topology.leaves[assigned_leaf].assigned_clients.add(client_id);
\* the second statement raises KeyError on a leaf that is no key of leaves,
\* after the first has been carried out.
attach_client(t, client_config) ==
    LET t1 == [t EXCEPT !.clients = DictSet(@, client_config.client_id, client_config)]
        leaf_id == client_config.assigned_leaf
    IN  IF DictHas(t1.leaves, leaf_id)
        THEN [topology |-> [t1 EXCEPT !.leaves[DictIndex(t1.leaves, leaf_id)].v.assigned_clients
                                          = @ \cup {client_config.client_id}],
              raised   |-> None]
        ELSE [topology |-> t1, raised |-> Some("KeyError")]

\* with_client storing the client before a leaf has been found for it.
with_client_eager(t, client_id, name, client_type, preferred_leaf) ==
    LET assigned_leaf == assign_leaf(t, preferred_leaf)
        t1 == [t EXCEPT !.clients =
                  DictSet(@, client_id, ClientConfig(client_id, name, client_type, ""))]
    IN  IF assigned_leaf = None
        THEN [topology |-> t1, raised |-> Some("ValueError")]
        ELSE attach_client(t, ClientConfig(client_id, name, client_type,
                                            TheValue(assigned_leaf)))

\* CimTopologyBuilder.with_client on topology t, with client_id the ClientId()
\* drawn at its first line: the topology afterwards and the exception raised.
with_client(t, client_id, name, client_type, preferred_leaf) ==
    LET assigned_leaf == assign_leaf(t, preferred_leaf)
    IN  IF assigned_leaf = None
        THEN [topology |-> t, raised |-> Some("ValueError")]
        ELSE attach_client(t, ClientConfig(client_id, name, client_type,
                                            TheValue(assigned_leaf)))

(* ------------------------------------------------------------------ build *)

\* build with self.topology.version += 1.
build_increments_version(h, ref) ==
    [heap   |-> [h EXCEPT ![ref].version = @ + 1],
     result |-> ref]

\* build returning a copy of the topology.
build_copy(h, ref) ==
    [heap   |-> Append([h EXCEPT ![ref].version = 1], [h[ref] EXCEPT !.version = 1]),
     result |-> Len(h) + 1]

\* CimTopologyBuilder.build on the heap h, self.topology being object ref:
\* the heap afterwards and the object returned.
build(h, ref) ==
    [heap   |-> [h EXCEPT ![ref].version = 1],
     result |-> ref]

(* ---------------------------------------------------------------- actions *)

\* response before any command: CimMCPServer.__init__ has just run.
NoResponse == [command |-> "none", success |-> TRUE, data |-> [none |-> TRUE]]

\* last: the call just made (op), the call before it (prev), the preferred_leaf
\* argument of a with_client call and the exception raised, None for a normal return.
NoCall == [op |-> "none", prev |-> "none", preferred_leaf |-> None, raised |-> None]

Init ==
    /\ heap = << >>
    /\ builder = 0
    /\ returned = << >>
    /\ uuids = 0
    /\ preferred_given = FALSE
    /\ last = NoCall
    /\ cim_topology = None
    /\ event_chain = << >>
    /\ clock = 0
    /\ response = NoResponse
    /\ created = << >>
    /\ vector_clock = << >>
    /\ subject = None
    /\ tier_summary = None
    /\ running = TRUE
    /\ line = None
    /\ request = None
    /\ stdout = << >>
    /\ sdn_added = {}
    /\ sdn_response = NoResponse

\* CimTopologyBuilder(): a builder over a new, empty topology.
NewBuilder ==
    /\ builder = 0
    /\ heap' = Append(heap, CimTopology(uuids + 1))
    /\ builder' = Len(heap) + 1
    /\ uuids' = uuids + 1
    /\ last' = [NoCall EXCEPT !.op = "__init__", !.prev = last.op]
    /\ UNCHANGED <<returned, preferred_given>>
    /\ UNCHANGED server_vars
    /\ UNCHANGED other_vars

Development ==
    /\ builder = 0
    /\ \E name \in TopologyNames :
           heap' = Append(heap, development(name, uuids + 1))
    /\ builder' = Len(heap) + 1
    /\ uuids' = uuids + 1
    /\ last' = [NoCall EXCEPT !.op = "development", !.prev = last.op]
    /\ UNCHANGED <<returned, preferred_given>>
    /\ UNCHANGED server_vars
    /\ UNCHANGED other_vars

Production ==
    /\ builder = 0
    /\ \E name \in TopologyNames :
           heap' = Append(heap, production(name, uuids + 1))
    /\ builder' = Len(heap) + 1
    /\ uuids' = uuids + 1
    /\ last' = [NoCall EXCEPT !.op = "production", !.prev = last.op]
    /\ UNCHANGED <<returned, preferred_given>>
    /\ UNCHANGED server_vars
    /\ UNCHANGED other_vars

WithClient ==
    /\ builder # 0
    /\ uuids <= MaxClients
    /\ \E kind \in ClientKinds, preferred_leaf \in PreferredLeaves :
           LET r == with_client(heap[builder], uuids + 1, kind[1], kind[2], preferred_leaf)
           IN  /\ heap' = [heap EXCEPT ![builder] = r.topology]
               /\ last' = [op |-> "with_client", prev |-> last.op,
                           preferred_leaf |-> preferred_leaf, raised |-> r.raised]
               /\ preferred_given' = (preferred_given \/ preferred_leaf # None)
    /\ uuids' = uuids + 1
    /\ UNCHANGED <<builder, returned>>
    /\ UNCHANGED server_vars
    /\ UNCHANGED other_vars

Build ==
    /\ builder # 0
    /\ Len(returned) < MaxBuilds
    /\ LET r == build(heap, builder)
       IN  /\ heap' = r.heap
           /\ returned' = Append(returned, r.result)
    /\ last' = [NoCall EXCEPT !.op = "build", !.prev = last.op]
    /\ UNCHANGED <<builder, uuids, preferred_given>>
    /\ UNCHANGED server_vars
    /\ UNCHANGED other_vars

Next ==
    \/ NewBuilder
    \/ Development
    \/ Production
    \/ WithClient
    \/ Build

Spec == Init /\ [][Next]_vars

(* ------------------------------------------------------------ CimEvent *)

\* The wall clock is explored up to this many microseconds.
MaxClock == 1

\* CimEvent.create calls are explored while at most this many uuids are issued.
MaxEventUuids == 4

\* datetime.utcnow() when the clock stands at us microseconds.
utcnow(us) == [second |-> us \div 1000000, microsecond |-> us % 1000000]

\* datetime.isoformat(): the fraction is left out when microsecond is 0.
isoformat(dt) ==
    IF dt.microsecond = 0 THEN <<dt.second>> ELSE <<dt.second, dt.microsecond>>

\* json.dumps(obj, sort_keys=True): one text per JSON value; mappings are
\* records here, so the order of their keys is already immaterial.
json_dumps(obj) == [json |-> obj]

\* hashlib.sha256(...).hexdigest(), taken to be free of collisions.
sha256(bytes) == [sha256 |-> bytes]

\* Cid(value="genesis"), a Cid that is no digest.
GenesisCid == [literal |-> "genesis"]

\* How many uuids CimEvent.create draws: one for each id the caller left out.
FreshIds(correlation_id, causation_id) ==
    (IF correlation_id = None THEN 1 ELSE 0) + (IF causation_id = None THEN 1 ELSE 0)

\* The hashed content of create; no previous_cid entry.
event_content_unchained(payload, source_tier, node_id, previous_cid, timestamp) ==
    [payload     |-> payload,
     source_tier |-> source_tier,
     node_id     |-> node_id,
     timestamp   |-> isoformat(timestamp)]

\* The content dict hashed by CimEvent.create.
event_content(payload, source_tier, node_id, previous_cid, timestamp) ==
    [payload      |-> payload,
     source_tier  |-> source_tier,
     node_id      |-> node_id,
     timestamp    |-> isoformat(timestamp),
     previous_cid |-> previous_cid]

\* CimEvent.create. t_content is the clock at the utcnow() of the content,
\* t_stamp the clock at the later utcnow() of the timestamp field, issued the
\* number of uuids drawn before the call.
CimEvent_create(payload, source_tier, node_id, previous_cid, correlation_id, causation_id, t_content, t_stamp, issued) ==
    LET content == event_content(payload, source_tier, node_id, previous_cid,
                                 utcnow(t_content))
        fresh_correlation == issued + 1
        fresh_causation   == issued + FreshIds(correlation_id, Some(0)) + 1
    IN  [event_cid      |-> sha256(json_dumps(content)),
         previous_cid   |-> previous_cid,
         correlation_id |-> IF correlation_id = None THEN fresh_correlation
                            ELSE TheValue(correlation_id),
         causation_id   |-> IF causation_id = None THEN fresh_causation
                            ELSE TheValue(causation_id),
         source_tier    |-> source_tier,
         node_id        |-> node_id,
         payload        |-> payload,
         timestamp      |-> utcnow(t_stamp),
         vector_clock   |-> << >>]

\* Arguments of direct CimEvent.create calls.
EventPayloads == {[event_type |-> "Opened"], [event_type |-> "Closed"]}

EventTiers == {"client", "leaf"}

EventNodes == {"system", "simulation"}

EventPrevious == {None, Some(GenesisCid)}

\* correlation_id / causation_id arguments: left out, or an id of the caller's (0).
EventIds == {None, Some(0)}

\* The clock values a later utcnow() of the same call may read.
LaterReads == {t \in {clock, clock + 1} : t <= MaxClock}

\* The latest two entries of a log after one more.
Window(log, entry) == IF Len(log) < 2 THEN Append(log, entry) ELSE <<log[2], entry>>

\* A caller creates an event; the clock may move on between the two utcnow().
CreateEvent ==
    /\ uuids + 2 <= MaxEventUuids
    /\ \E payload \in EventPayloads, source_tier \in EventTiers, node_id \in EventNodes,
          previous_cid \in EventPrevious, correlation_id \in EventIds,
          t_stamp \in LaterReads :
           /\ created' = Window(created,
                  [payload        |-> payload,
                   source_tier    |-> source_tier,
                   node_id        |-> node_id,
                   previous_cid   |-> previous_cid,
                   correlation_id |-> correlation_id,
                   t_content      |-> clock,
                   t_stamp        |-> t_stamp,
                   event          |-> CimEvent_create(payload, source_tier, node_id,
                                          previous_cid, correlation_id, None,
                                          clock, t_stamp, uuids)])
           /\ uuids' = uuids + FreshIds(correlation_id, None)
           /\ clock' = t_stamp
    /\ UNCHANGED <<cim_topology, event_chain, response>>
    /\ UNCHANGED builder_vars
    /\ UNCHANGED other_vars

\* Time passes between calls.
Tick ==
    /\ clock < MaxClock
    /\ clock' = clock + 1
    /\ UNCHANGED <<uuids, cim_topology, event_chain, response, created>>
    /\ UNCHANGED builder_vars
    /\ UNCHANGED other_vars

NextEvent ==
    \/ CreateEvent
    \/ Tick

SpecEvent == Init /\ [][NextEvent]_vars

(* ------------------------------------------------------- preset factories *)

\* The (name, client_type) pairs create_development_cim attaches, in order.
DevelopmentClients == <<(<<"Developer CLI", "cli">>), (<<"Local Browser", "browser">>)>>

\* client_types of create_production_cim.
ProductionClients ==
    <<(<<"Web Application", "application">>), (<<"Mobile Service", "service">>),
      (<<"Admin CLI", "cli">>), (<<"Developer Workspace", "developer">>)>>

RECURSIVE with_clients(_, _, _)
\* with_client(name, client_type) for each pair in turn, no preferred leaf,
\* stopping at the first call that raises; issued counts the uuids drawn so far.
with_clients(t, issued, clients) ==
    IF clients = << >>
    THEN [topology |-> t, issued |-> issued, raised |-> None]
    ELSE LET r == with_client(t, issued + 1, Head(clients)[1], Head(clients)[2], None)
         IN  IF r.raised # None
             THEN [topology |-> r.topology, issued |-> issued + 1, raised |-> r.raised]
             ELSE with_clients(r.topology, issued + 1, Tail(clients))

\* The object a builder over topology t returns from build().
built(t) == LET r == build(<<t>>, 1) IN r.heap[r.result]

\* create_development_cim(name).
create_development_cim(name, issued) ==
    LET r == with_clients(development(name, issued + 1), issued + 1, DevelopmentClients)
    IN  [topology |-> IF r.raised = None THEN built(r.topology) ELSE r.topology,
         issued   |-> r.issued,
         raised   |-> r.raised]

\* create_production_cim(name).
create_production_cim(name, issued) ==
    LET r == with_clients(production(name, issued + 1), issued + 1, ProductionClients)
    IN  [topology |-> IF r.raised = None THEN built(r.topology) ELSE r.topology,
         issued   |-> r.issued,
         raised   |-> r.raised]

(* ---------------------------------------------------------------- summary *)

\* The "leaves" mapping of one cluster in the hierarchy view, client lists empty.
leaves_view_no_clients(t, cluster_config) ==
    [leaf_id \in {l \in cluster_config.managed_leaves : DictHas(t.leaves, l)} |->
        [name |-> DictGet(t.leaves, leaf_id).name, clients |-> {}]]

\* The "leaves" mapping of one cluster listing every leaf of the topology.
leaves_view_all_leaves(t, cluster_config) ==
    [leaf_id \in DictKeySet(t.leaves) |->
        [name    |-> DictGet(t.leaves, leaf_id).name,
         clients |-> DictGet(t.leaves, leaf_id).assigned_clients]]

\* The "leaves" mapping of one cluster in the hierarchy view. The client list is
\* built by iterating a set, so its order is not fixed: it is kept as the set
\* of its elements.
leaves_view(t, cluster_config) ==
    [leaf_id \in {l \in cluster_config.managed_leaves : DictHas(t.leaves, l)} |->
        [name    |-> DictGet(t.leaves, leaf_id).name,
         clients |-> DictGet(t.leaves, leaf_id).assigned_clients]]

\* The "clusters" mapping of one super-cluster in the hierarchy view.
clusters_view(t, super_config) ==
    [cluster_id \in {c \in super_config.managed_clusters : DictHas(t.clusters, c)} |->
        [name   |-> DictGet(t.clusters, cluster_id).name,
         domain |-> DictGet(t.clusters, cluster_id).domain,
         leaves |-> leaves_view(t, DictGet(t.clusters, cluster_id))]]

\* CimTopology._build_hierarchy_view: {} without super-clusters.
build_hierarchy_view(t) ==
    IF t.super_clusters = << >>
    THEN << >>
    ELSE [super_clusters |->
            [super_id \in DictKeySet(t.super_clusters) |->
                [name     |-> DictGet(t.super_clusters, super_id).name,
                 clusters |-> clusters_view(t, DictGet(t.super_clusters, super_id))]]]

\* CimTopology.get_tier_summary.
get_tier_summary(t) ==
    [topology_id |-> t.topology_id,
     version     |-> t.version,
     tiers       |-> [super_clusters |-> Len(t.super_clusters),
                      clusters       |-> Len(t.clusters),
                      leaves         |-> Len(t.leaves),
                      clients        |-> Len(t.clients)],
     hierarchy   |-> build_hierarchy_view(t)]

(* ----------------------------------------------------------- CimMCPServer *)

\* float('nan'), which a JSON argument may carry: it is equal to nothing.
NaN == "float:nan"

\* Python == on argument values.
PyEq(a, b) == a = b /\ a # NaN

\* The outcome of a command: the server fields, the uuids issued and the
\* clock afterwards, and the dict returned.
Reply(s, issued, now, command, success, data) ==
    [cim_topology |-> s.cim_topology,
     event_chain  |-> s.event_chain,
     issued       |-> issued,
     clock        |-> now,
     response     |-> [command |-> command, success |-> success, data |-> data]]

\* "data": {} of the failure responses.
NoData == << >>

\* The log with the event put first.
chain_prepend(chain, event) == <<event>> \o chain

\* The log started afresh with the event.
chain_restart(chain, event) == <<event>>

\* self.event_chain.append(event)
chain_append(chain, event) == Append(chain, event)

\* self.event_chain[-1].event_cid if self.event_chain else None
last_cid(chain) ==
    IF chain = << >> THEN None ELSE Some(chain[Len(chain)].event_cid)

\* client_type_map.get(client_type_str, ClientType.CLI)
client_type_map(client_type_str) ==
    IF client_type_str \in {"developer", "application", "service", "browser", "cli"}
    THEN client_type_str
    ELSE "cli"

\* tier_map.get(source_tier_str, CimTier.CLIENT)
tier_map(source_tier_str) ==
    IF source_tier_str \in {"client", "leaf", "cluster", "super_cluster"}
    THEN source_tier_str
    ELSE "client"

\* _create_cim_topology
create_cim_topology(s, issued, args, t_content, t_stamp) ==
    IF args.topology_type \notin {"development", "production"}
    THEN Reply(s, issued, t_content, "create_cim_topology", FALSE, NoData)
    ELSE LET made == IF args.topology_type = "development"
                     THEN create_development_cim(args.name, issued)
                     ELSE create_production_cim(args.name, issued)
             event == CimEvent_create(
                          [event_type    |-> "TopologyCreated",
                           topology_name |-> args.name,
                           topology_type |-> args.topology_type,
                           enable_nats   |-> args.enable_nats],
                          "super_cluster", "system", None, None, None,
                          t_content, t_stamp, made.issued)
             s1 == [cim_topology |-> Some(made.topology),
                    event_chain  |-> chain_append(s.event_chain, event)]
             summary == get_tier_summary(made.topology)
         IN  IF made.raised # None
             THEN Reply(s, made.issued, t_content, "create_cim_topology", FALSE, NoData)
             ELSE Reply(s1, made.issued + FreshIds(None, None), t_stamp,
                        "create_cim_topology", TRUE,
                        [topology_id   |-> summary.topology_id,
                         topology_type |-> args.topology_type,
                         version       |-> summary.version,
                         tiers         |-> summary.tiers,
                         hierarchy     |-> summary.hierarchy,
                         nats_enabled  |-> args.enable_nats,
                         event_cid     |-> event.event_cid])

\* The leaf of the topology whose id is preferred_leaf_str, None without one.
find_preferred_leaf(t, preferred_leaf_str) ==
    IF preferred_leaf_str # None /\ preferred_leaf_str # Some("")
          /\ DictHas(t.leaves, TheValue(preferred_leaf_str))
    THEN preferred_leaf_str
    ELSE None

\* The positions in t.clients of the clients with this name and client type.
matching_clients(t, name, client_type) ==
    {i \in 1..Len(t.clients) :
        PyEq(t.clients[i].v.name, name) /\ t.clients[i].v.client_type = client_type}

\* _add_cim_client
add_cim_client(s, issued, args, t_content, t_stamp) ==
    IF s.cim_topology = None
    THEN Reply(s, issued, t_content, "add_cim_client", FALSE, NoData)
    ELSE LET t == TheValue(s.cim_topology)
             client_type == client_type_map(args.client_type)
             added == with_client(t, issued + 1, args.name, client_type,
                                  find_preferred_leaf(t, args.preferred_leaf))
             t1 == built(added.topology)
             found == matching_clients(t1, args.name, client_type)
             first == CHOOSE i \in found : \A j \in found : i <= j
             client_config == t1.clients[first].v
             event == CimEvent_create(
                          [event_type    |-> "ClientRegistered",
                           client_id     |-> client_config.client_id,
                           client_name   |-> args.name,
                           client_type   |-> args.client_type,
                           assigned_leaf |-> client_config.assigned_leaf],
                          "leaf", client_config.assigned_leaf, last_cid(s.event_chain),
                          None, None, t_content, t_stamp, issued + 1)
         IN  IF added.raised # None
             THEN Reply([s EXCEPT !.cim_topology = Some(added.topology)], issued + 1,
                        t_content, "add_cim_client", FALSE, NoData)
             ELSE IF found = {}
             THEN Reply([s EXCEPT !.cim_topology = Some(t1)], issued + 1,
                        t_content, "add_cim_client", FALSE, NoData)
             ELSE Reply([cim_topology |-> Some(t1),
                         event_chain  |-> chain_append(s.event_chain, event)],
                        issued + 1 + FreshIds(None, None), t_stamp,
                        "add_cim_client", TRUE,
                        [client_id     |-> client_config.client_id,
                         name          |-> args.name,
                         client_type   |-> args.client_type,
                         assigned_leaf |-> client_config.assigned_leaf,
                         total_clients |-> get_tier_summary(t1).tiers.clients,
                         event_cid     |-> event.event_cid])

\* _simulate_event_flow
simulate_event_flow(source_tier) ==
    CASE source_tier = "client" ->
            <<"CLIENT: Event initiated by user/application",
              "LEAF: Command validation and local processing",
              "CLUSTER: Domain coordination and saga orchestration",
              "SUPER_CLUSTER: Global orchestration and consistency">>
      [] source_tier = "leaf" ->
            <<"LEAF: Local event generated",
              "CLUSTER: Domain aggregation and coordination",
              "SUPER_CLUSTER: Global impact analysis">>
      [] source_tier = "cluster" ->
            <<"CLUSTER: Domain-level event",
              "SUPER_CLUSTER: Cross-domain coordination">>
      [] OTHER ->
            <<"SUPER_CLUSTER: Global system event",
              "CLUSTER: Domain-specific coordination",
              "LEAF: Local implementation",
              "CLIENT: Event notification">>

\* _simulate_cim_event. A payload that is no mapping makes {**payload} raise
\* before the event is created; execute_cim_command turns that into a failure.
simulate_cim_event(s, issued, args, t_content, t_stamp) ==
    IF s.cim_topology = None
    THEN Reply(s, issued, t_content, "simulate_cim_event", FALSE, NoData)
    ELSE IF args.payload = None
    THEN Reply(s, issued, t_content, "simulate_cim_event", FALSE, NoData)
    ELSE LET source_tier == tier_map(args.source_tier)
             event == CimEvent_create(
                          TheValue(args.payload)
                              @@ [event_type |-> args.event_type, simulation |-> TRUE],
                          source_tier, "simulation", last_cid(s.event_chain),
                          None, None, t_content, t_stamp, issued)
         IN  Reply([s EXCEPT !.event_chain = chain_append(s.event_chain, event)],
                   issued + FreshIds(None, None), t_stamp, "simulate_cim_event", TRUE,
                   [event_cid      |-> event.event_cid,
                    source_tier    |-> args.source_tier,
                    event_type     |-> args.event_type,
                    flow_path      |-> simulate_event_flow(source_tier),
                    correlation_id |-> event.correlation_id])

\* A state query that also records itself in the log.
get_cim_state_logged(s, issued, args, t_content, t_stamp) ==
    LET event == CimEvent_create([event_type |-> "StateRead"], "client", "system",
                                 last_cid(s.event_chain), None, None,
                                 t_content, t_stamp, issued)
    IN  Reply([s EXCEPT !.event_chain = chain_append(s.event_chain, event)],
              issued + FreshIds(None, None), t_stamp, "get_cim_state", TRUE,
              [topology_exists    |-> s.cim_topology # None,
               event_chain_length |-> Len(s.event_chain)])

\* _get_cim_state
get_cim_state(s, issued, args, t_content, t_stamp) ==
    IF s.cim_topology = None
    THEN Reply(s, issued, t_content, "get_cim_state", TRUE,
               [topology_exists    |-> FALSE,
                event_chain_length |-> Len(s.event_chain)])
    ELSE Reply(s, issued, t_content, "get_cim_state", TRUE,
               [topology_exists    |-> TRUE,
                summary            |-> get_tier_summary(TheValue(s.cim_topology)),
                event_chain_length |-> Len(s.event_chain),
                last_event         |-> IF s.event_chain = << >> THEN None
                                       ELSE Some(s.event_chain[Len(s.event_chain)].payload)])

\* _generate_ascii/mermaid/dot_cim_visualization: the drawing, kept as the
\* values of the summary it is made of.
visualization(format_type, include_nats, summary) ==
    [format      |-> format_type,
     topology_id |-> IF format_type = "ascii" THEN Some(summary.topology_id) ELSE None,
     version     |-> IF format_type = "ascii" THEN Some(summary.version) ELSE None,
     tiers       |-> summary.tiers,
     nats        |-> include_nats]

\* _visualize_cim_topology
visualize_cim_topology(s, issued, args, t_content, t_stamp) ==
    IF s.cim_topology = None
    THEN Reply(s, issued, t_content, "visualize_cim_topology", FALSE, NoData)
    ELSE IF args.format \notin {"ascii", "mermaid", "dot"}
    THEN Reply(s, issued, t_content, "visualize_cim_topology", FALSE, NoData)
    ELSE Reply(s, issued, t_content, "visualize_cim_topology", TRUE,
               [format        |-> args.format,
                include_nats  |-> args.include_nats,
                visualization |-> visualization(args.format, args.include_nats,
                                     get_tier_summary(TheValue(s.cim_topology)))])

\* _generate_nixos_cim_config: the text, kept as the values of the summary it
\* is made of and the tier sections it holds.
generate_nixos_cim_config(t, tier, node_id, include_nats) ==
    [topology_id |-> get_tier_summary(t).topology_id,
     version     |-> get_tier_summary(t).version,
     sections    |-> {x \in {"super_cluster", "cluster", "leaf", "client"} :
                         tier = "all" \/ tier = x},
     nats        |-> include_nats]

\* _generate_cim_config
generate_cim_config(s, issued, args, t_content, t_stamp) ==
    IF s.cim_topology = None
    THEN Reply(s, issued, t_content, "generate_cim_config", FALSE, NoData)
    ELSE Reply(s, issued, t_content, "generate_cim_config", TRUE,
               [tier           |-> args.tier,
                node_id        |-> args.node_id,
                include_nats   |-> args.include_nats,
                config_preview |-> generate_nixos_cim_config(TheValue(s.cim_topology),
                                      args.tier, args.node_id, args.include_nats)])

\* _scale_cim_tier without the check that a topology exists.
scale_cim_tier_unguarded(s, issued, args, t_content, t_stamp) ==
    Reply(s, issued, t_content, "scale_cim_tier", TRUE,
          [tier          |-> args.tier,
           action        |-> args.action,
           count         |-> args.count,
           current_tiers |-> IF s.cim_topology = None
                             THEN [super_clusters |-> 0, clusters |-> 0,
                                   leaves |-> 0, clients |-> 0]
                             ELSE get_tier_summary(TheValue(s.cim_topology)).tiers])

\* _scale_cim_tier carrying out a removal of the clients.
scale_cim_tier_applied(s, issued, args, t_content, t_stamp) ==
    IF s.cim_topology = None
    THEN Reply(s, issued, t_content, "scale_cim_tier", FALSE, NoData)
    ELSE Reply([s EXCEPT !.cim_topology = Some([TheValue(@) EXCEPT !.clients = << >>])],
               issued, t_content, "scale_cim_tier", TRUE,
               [tier          |-> args.tier,
                action        |-> args.action,
                count         |-> args.count,
                current_tiers |-> get_tier_summary(TheValue(s.cim_topology)).tiers])

\* _scale_cim_tier: a simulation, the topology is only summarised.
scale_cim_tier(s, issued, args, t_content, t_stamp) ==
    IF s.cim_topology = None
    THEN Reply(s, issued, t_content, "scale_cim_tier", FALSE, NoData)
    ELSE Reply(s, issued, t_content, "scale_cim_tier", TRUE,
               [tier          |-> args.tier,
                action        |-> args.action,
                count         |-> args.count,
                current_tiers |-> get_tier_summary(TheValue(s.cim_topology)).tiers])

\* The final branch of execute_cim_command: a command it does not know.
unknown_command(s, issued, command, t_content, t_stamp) ==
    Reply(s, issued, t_content, command, FALSE, NoData)

(* --------------------------------------------------------- server actions *)

\* Commands that log an event are explored while the log is shorter than this.
MaxEvents == 2

\* add_cim_client is explored while the live topology has fewer clients than this.
MaxServerClients == 5

\* Argument values of the commands.
CreateArgs ==
    [name : TopologyNames, topology_type : {"development", "production", "staging"},
     enable_nats : {TRUE}]

AddArgs ==
    [name : {"Developer CLI", NaN}, client_type : {"robot"},
     preferred_leaf : {None, Some("us-west-leaf-2")}]

SimulateArgs ==
    [event_type : {"Ping"},
     payload : {None, Some([simulation |-> FALSE])},
     source_tier : {"edge"}]

ScaleArgs ==
    {[tier |-> "leaf", action |-> "add", count |-> 1],
     [tier |-> "cluster", action |-> "remove", count |-> 2]}

ConfigArgs == [tier : {"leaf"}, node_id : {None}, include_nats : {TRUE}]

StateArgs == {<< >>}

VisualizeArgs == [format : {"dot", "svg"}, include_nats : {TRUE}]

UnknownCommands == {"delete_cim_topology"}

\* The fields of the server object.
Server == [cim_topology |-> cim_topology, event_chain |-> event_chain]

\* The server fields, the uuids issued, the clock and the response are as the
\* command that returned r left them.
Effect(r) ==
    /\ cim_topology' = r.cim_topology
    /\ event_chain' = r.event_chain
    /\ uuids' = r.issued
    /\ clock' = r.clock
    /\ response' = r.response

\* A command returns r.
Return(r) ==
    /\ Effect(r)
    /\ UNCHANGED created
    /\ UNCHANGED builder_vars
    /\ UNCHANGED other_vars

\* execute_cim_command runs one command to its return; the clock may move on
\* while it runs. Each branch of its dispatch is one action.
CreateCimTopology ==
    /\ Len(event_chain) < MaxEvents
    /\ \E args \in CreateArgs, t_stamp \in LaterReads :
           Return(create_cim_topology(Server, uuids, args, clock, t_stamp))

AddCimClient ==
    /\ Len(event_chain) < MaxEvents
    /\ cim_topology # None => Len(TheValue(cim_topology).clients) < MaxServerClients
    /\ \E args \in AddArgs, t_stamp \in LaterReads :
           Return(add_cim_client(Server, uuids, args, clock, t_stamp))

ScaleCimTier ==
    /\ \E args \in ScaleArgs, t_stamp \in LaterReads :
           Return(scale_cim_tier(Server, uuids, args, clock, t_stamp))

GenerateCimConfig ==
    /\ \E args \in ConfigArgs, t_stamp \in LaterReads :
           Return(generate_cim_config(Server, uuids, args, clock, t_stamp))

GetCimState ==
    /\ \E args \in StateArgs, t_stamp \in LaterReads :
           Return(get_cim_state(Server, uuids, args, clock, t_stamp))

SimulateCimEvent ==
    /\ Len(event_chain) < MaxEvents
    /\ \E args \in SimulateArgs, t_stamp \in LaterReads :
           Return(simulate_cim_event(Server, uuids, args, clock, t_stamp))

VisualizeCimTopology ==
    /\ \E args \in VisualizeArgs, t_stamp \in LaterReads :
           Return(visualize_cim_topology(Server, uuids, args, clock, t_stamp))

UnknownCommand ==
    /\ \E command \in UnknownCommands, t_stamp \in LaterReads :
           Return(unknown_command(Server, uuids, command, clock, t_stamp))

NextServer ==
    \/ CreateCimTopology
    \/ AddCimClient
    \/ ScaleCimTier
    \/ GenerateCimConfig
    \/ GetCimState
    \/ SimulateCimEvent
    \/ VisualizeCimTopology
    \/ UnknownCommand
    \/ Tick

SpecServer == Init /\ [][NextServer]_vars

(* ------------------------------------------------------ builder and server *)

\* A process drives a builder of its own or the server. The server makes its
\* builders itself and shares no object with the caller's, so a builder is
\* driven only while no command has been sent, and commands only while the
\* caller holds no builder. The builder reads no clock: it is driven at the
\* first instant.
BuilderSession == Next /\ cim_topology = None /\ response = NoResponse /\ clock = 0

ServerSession == NextServer /\ builder = 0

NextLifecycle ==
    \/ BuilderSession
    \/ ServerSession

SpecLifecycle == Init /\ [][NextLifecycle]_vars

(* ------------------------------------------------------------ VectorClock *)

\* tick is explored while the node's counter is below this.
MaxCount == 3

\* dict.get(key, default)
DictGetOr(d, key, default) == IF DictHas(d, key) THEN DictGet(d, key) ELSE default

\* The node ids passed to tick.
ClockNodes == {"leaf-a", "leaf-b", "leaf-c"}

\* The clocks of the VectorClock objects passed to update, besides the clock
\* itself; the last one was filled in by hand with a negative counter.
OtherClocks ==
    {<< >>,
     <<[k |-> "leaf-a", v |-> 2]>>,
     <<[k |-> "leaf-c", v |-> 3], [k |-> "leaf-b", v |-> 1]>>,
     <<[k |-> "leaf-b", v |-> 0 - 1]>>}

\* VectorClock.tick
tick(clocks, node_id) == DictSet(clocks, node_id, DictGetOr(clocks, node_id, 0) + 1)

\* update taking over the other clock's counters as they are.
update_overwrite(clocks, other) ==
    [i \in 1..Len(clocks) |->
        IF DictHas(other, clocks[i].k)
        THEN [k |-> clocks[i].k, v |-> DictGet(other, clocks[i].k)]
        ELSE clocks[i]]
    \o SelectSeq(other, LAMBDA e : ~DictHas(clocks, e.k))

RECURSIVE update_from(_, _, _)
\* The loop of VectorClock.update from the i-th item of other.clocks on.
update_from(clocks, other, i) ==
    IF i > Len(other)
    THEN clocks
    ELSE LET node_id == other[i].k
             larger  == IF DictGetOr(clocks, node_id, 0) >= other[i].v
                        THEN DictGetOr(clocks, node_id, 0)
                        ELSE other[i].v
         IN  update_from(DictSet(clocks, node_id, larger), other, i + 1)

\* VectorClock.update
update(clocks, other) == update_from(clocks, other, 1)

\* clock.tick(node_id)
VcTick(node_id) ==
    /\ DictGetOr(vector_clock, node_id, 0) < MaxCount
    /\ vector_clock' = tick(vector_clock, node_id)
    /\ UNCHANGED <<subject, tier_summary, running, line, request, stdout, sdn_added, sdn_response>>
    /\ UNCHANGED <<uuids, server_vars, builder_vars>>

\* clock.update(other)
VcUpdate(other) ==
    /\ vector_clock' = update(vector_clock, other)
    /\ UNCHANGED <<subject, tier_summary, running, line, request, stdout, sdn_added, sdn_response>>
    /\ UNCHANGED <<uuids, server_vars, builder_vars>>

VectorClockTick == \E node_id \in ClockNodes : VcTick(node_id)

VectorClockUpdate == \E other \in OtherClocks \cup {vector_clock} : VcUpdate(other)

NextVectorClock ==
    \/ VectorClockTick
    \/ VectorClockUpdate

SpecVectorClock == Init /\ [][NextVectorClock]_vars

(* ------------------------------------------- get_tier_summary on any value *)

\* Most entries that the maps of a topology value lack.
MaxMissing == 2

\* The topology t without the map entries of the ids in gone.
Inconsistent(t, gone) ==
    [t EXCEPT !.clusters = SelectSeq(@, LAMBDA e : e.k \notin gone.clusters),
              !.leaves   = SelectSeq(@, LAMBDA e : e.k \notin gone.leaves),
              !.clients  = SelectSeq(@, LAMBDA e : e.k \notin gone.clients)]

\* The choices of at most MaxMissing entries of the maps of t.
Gone(t) ==
    {gone \in [clusters : SUBSET DictKeySet(t.clusters),
               leaves   : SUBSET DictKeySet(t.leaves),
               clients  : SUBSET DictKeySet(t.clients)] :
        Cardinality(gone.clusters) + Cardinality(gone.leaves)
            + Cardinality(gone.clients) <= MaxMissing}

\* CimTopology values: the presets, and the presets with map entries left out
\* while the membership sets still name them.
SummarySubjects ==
    LET presets == {create_development_cim("cim", 0).topology,
                    create_production_cim("cim", 0).topology}
    IN  UNION {{Inconsistent(t, gone) : gone \in Gone(t)} : t \in presets}

\* topology = CimTopology(topology_id, super_clusters, clusters, leaves, clients)
ConstructTopology ==
    /\ subject = None
    /\ \E t \in SummarySubjects : subject' = Some(t)
    /\ UNCHANGED <<vector_clock, tier_summary, running, line, request, stdout, sdn_added, sdn_response>>
    /\ UNCHANGED <<uuids, server_vars, builder_vars>>

\* summary = topology.get_tier_summary()
GetTierSummary ==
    /\ subject # None
    /\ tier_summary' = Some(get_tier_summary(TheValue(subject)))
    /\ UNCHANGED <<vector_clock, subject, running, line, request, stdout, sdn_added, sdn_response>>
    /\ UNCHANGED <<uuids, server_vars, builder_vars>>

NextSummary == ConstructTopology \/ GetTierSummary

SpecSummary == Init /\ [][NextSummary]_vars

(* ------------------------------------------------------------- main loop *)

\* Lines are read while fewer than MaxLines response lines have been printed.
MaxLines == 2

\* JSON values carry their JSON type; an object that lacks a member holds None
\* for it, which is what dict.get returns.
JsonNull == [type |-> "null"]
JsonArray == [type |-> "array"]
JsonObject(members) == [type |-> "object"] @@ members

\* The values of the "id" member of a request, None when it is absent.
RequestIds == {None, Some(7), Some(8)}

\* The values of the "params" member of a tools/call request.
CallParams ==
    {Some(JsonNull),
     Some(JsonObject([name |-> "get_cim_state", arguments |-> << >>])),
     Some(JsonObject([name      |-> "create_cim_topology",
                      arguments |-> [name |-> "cim", topology_type |-> "development",
                                     enable_nats |-> TRUE]]))}

\* The request objects a client sends.
Requests ==
    {JsonObject([id |-> id, method |-> "tools/call", params |-> params]) :
        id \in RequestIds, params \in CallParams}
    \cup {JsonObject([id |-> id, method |-> method, params |-> None]) :
            id \in RequestIds, method \in {"tools/list", "resources/list"}}

\* The result of sys.stdin.readline() at end of input.
Eof == [text |-> ""]

\* The lines on standard input: requests, another JSON value, an empty line
\* and text that is not JSON.
StdinLines ==
    {json_dumps(v) : v \in Requests \cup {JsonArray}} \cup {[text |-> "\n"], [text |-> "not json"]}

\* json.loads(line.strip()): Some(value), or None when it raises.
json_loads(text) == IF "json" \in DOMAIN text THEN Some(text.json) ELSE None

\* value.get("id"): None for a missing member; raises on a value that is no object.
get_id(value) ==
    IF value.type = "object"
    THEN [raised |-> FALSE, id |-> value.id]
    ELSE [raised |-> TRUE, id |-> None]

\* The names of self.tools.
ToolNames ==
    {"create_cim_topology", "add_cim_client", "scale_cim_tier", "generate_cim_config",
     "get_cim_state", "simulate_cim_event", "visualize_cim_topology"}

\* execute_cim_command for the commands the requests name.
execute_cim_command(s, issued, command, args, t_content, t_stamp) ==
    IF command = "create_cim_topology"
    THEN create_cim_topology(s, issued, args, t_content, t_stamp)
    ELSE IF command = "get_cim_state"
    THEN get_cim_state(s, issued, args, t_content, t_stamp)
    ELSE unknown_command(s, issued, command, t_content, t_stamp)

\* The outcome of handle_request: whether it raised, the response mapping it
\* returned, and the command result r when a command ran (None otherwise).
Handled(raised, body, r) == [raised |-> raised, body |-> body, r |-> r]

\* The response of a tools/call whose command returned r.
call_response(r) ==
    Handled(FALSE,
            [content |-> <<[type |-> "text", text |-> json_dumps(r.response)]>>],
            Some(r))

\* CimMCPServer.handle_request
handle_request(s, issued, req, t_content, t_stamp) ==
    IF req.type # "object"
    THEN Handled(TRUE, << >>, None)
    ELSE IF req.method = "tools/list"
    THEN Handled(FALSE, [tools |-> ToolNames], None)
    ELSE IF req.method = "tools/call"
    THEN IF TheValue(req.params).type # "object"
         THEN Handled(TRUE, << >>, None)
         ELSE call_response(execute_cim_command(s, issued, TheValue(req.params).name,
                                TheValue(req.params).arguments, t_content, t_stamp))
    ELSE Handled(FALSE, [error |-> [code |-> 0 - 32601, message |-> req.method]], None)

\* One pass of the loop of main has these effects: the value bound to request,
\* the line printed (None if none), whether the loop goes on, and the command
\* result (None if no command ran).
Pass(bound, printed, goes_on, r) ==
    [request |-> bound, printed |-> printed, running |-> goes_on, r |-> r]

\* The except branch of main, with request bound to bound (None: unbound). It
\* prints the error response, unless reading the id raises in its turn, which
\* ends main.
main_except(bound, r) ==
    IF bound = None
    THEN Pass(bound, Some(json_dumps([jsonrpc |-> "2.0", id |-> None,
                                      error |-> [code |-> 0 - 32603]])), TRUE, r)
    ELSE IF get_id(TheValue(bound)).raised
    THEN Pass(bound, None, FALSE, r)
    ELSE Pass(bound, Some(json_dumps([jsonrpc |-> "2.0", id |-> get_id(TheValue(bound)).id,
                                      error |-> [code |-> 0 - 32603]])), TRUE, r)

\* The try branch of main once handle_request has returned or raised h.
main_respond(req, h) ==
    IF h.raised
    THEN main_except(Some(req), h.r)
    ELSE Pass(Some(req),
              Some(json_dumps(h.body @@ [jsonrpc |-> "2.0", id |-> req.id])), TRUE, h.r)

\* One pass of the loop of main over a line that is not the end of input;
\* bound is the value request is bound to from earlier passes.
main_pass(s, issued, bound, text, t_content, t_stamp) ==
    IF json_loads(text) = None
    THEN main_except(bound, None)
    ELSE main_respond(TheValue(json_loads(text)),
                      handle_request(s, issued, TheValue(json_loads(text)), t_content, t_stamp))

\* The state after a pass p that read text.
Passed(text, p) ==
    /\ line' = Some(text)
    /\ request' = p.request
    /\ stdout' = IF p.printed = None THEN stdout ELSE Append(stdout, TheValue(p.printed))
    /\ running' = p.running
    /\ IF p.r = None
       THEN UNCHANGED <<cim_topology, event_chain, uuids, clock, response>>
       ELSE Effect(TheValue(p.r))
    /\ UNCHANGED <<created, builder_vars, vector_clock, subject, tier_summary>>
    /\ UNCHANGED <<sdn_added, sdn_response>>

\* main reads one line and handles it to the end before it reads the next.
MainReadLine ==
    /\ running
    /\ Len(stdout) < MaxLines
    /\ \E text \in StdinLines, t_stamp \in LaterReads :
           Passed(text, main_pass(Server, uuids, request, text, clock, t_stamp))

\* main reads the end of input and leaves the loop.
MainEof ==
    /\ running
    /\ line' = Some(Eof)
    /\ running' = FALSE
    /\ UNCHANGED <<request, stdout, uuids, server_vars, builder_vars>>
    /\ UNCHANGED <<vector_clock, subject, tier_summary, sdn_added, sdn_response>>

NextMain == MainReadLine \/ MainEof

SpecMain == Init /\ [][NextMain]_vars

(* ------------------------------------------------------------- SDN server *)

\* add_sdn_node is explored while fewer than MaxNodes node ids are acknowledged.
MaxNodes == 3

\* args.get(key, default) on an argument that is None when absent.
GetOr(opt, default) == IF opt = None THEN default ELSE TheValue(opt)

\* Argument values of add_sdn_node.
AddNodeArgs ==
    [node_id   : {None, Some("web-01"), Some("db-01"), Some("server-01"), Some("gateway-01")},
     node_type : {None, Some("gateway")},
     tier      : {None, Some("cluster")}]

\* The result mapping of an SDN command.
SdnReply(command, success, data) == [command |-> command, success |-> success, data |-> data]

\* execute_sdn_command("add_sdn_node", args)
add_sdn_node(args) ==
    SdnReply("add_sdn_node", TRUE,
             [node_id                |-> GetOr(args.node_id, "unknown"),
              node_type              |-> GetOr(args.node_type, "server"),
              tier                   |-> GetOr(args.tier, "leaf"),
              added_to_context_graph |-> TRUE,
              nix_integration        |-> "ready"])

\* execute_sdn_command("get_sdn_state", args)
get_sdn_state ==
    SdnReply("get_sdn_state", TRUE,
             [nodes |-> [n \in {"server-01", "gateway-01"} |->
                            IF n = "server-01"
                            THEN [type |-> "server", tier |-> "cluster", status |-> "active"]
                            ELSE [type |-> "gateway", tier |-> "leaf", status |-> "active"]],
              connections |-> [c \in {"conn-1"} |->
                                  [from |-> "server-01", to |-> "gateway-01", type |-> "ethernet"]],
              context_graph_nodes |-> 2,
              context_graph_edges |-> 1])

\* The command returns r; sdn_added records the node ids whose addition a
\* response has acknowledged. The server object has no field to change.
SdnReturn(r) ==
    /\ sdn_response' = r
    /\ sdn_added' = IF r.command = "add_sdn_node" /\ r.success
                    THEN sdn_added \cup {r.data.node_id}
                    ELSE sdn_added
    /\ UNCHANGED <<vector_clock, subject, tier_summary, running, line, request, stdout>>
    /\ UNCHANGED <<uuids, server_vars, builder_vars>>

AddSdnNode ==
    /\ Cardinality(sdn_added) < MaxNodes
    /\ \E args \in AddNodeArgs : SdnReturn(add_sdn_node(args))

GetSdnState == SdnReturn(get_sdn_state)

NextSdn == AddSdnNode \/ GetSdnState

SpecSdn == Init /\ [][NextSdn]_vars

(* ------------------------------------------------- vocabulary of the claims *)

Built == builder # 0

\* The builder's topology (builder.topology).
Topology == heap[builder]

LeafCount(t) == Len(t.leaves)

\* The leaf at 0-based position i of leaf-addition order.
LeafAt(t, i) == DictKeys(t.leaves)[i + 1]

\* The client added most recently.
NewestClient(t) == t.clients[Len(t.clients)].v

\* Every owner named by a cluster, a leaf or a client is a key one tier up.
NoDangling(t) ==
    /\ \A i \in 1..Len(t.clusters) : DictHas(t.super_clusters, t.clusters[i].v.super_cluster)
    /\ \A i \in 1..Len(t.leaves) : DictHas(t.clusters, t.leaves[i].v.cluster)
    /\ \A i \in 1..Len(t.clients) : DictHas(t.leaves, t.clients[i].v.assigned_leaf)

\* Every parent that is present lists each object naming it as owner.
Bidirectional(t) ==
    /\ \A i \in 1..Len(t.clients) :
           LET c == t.clients[i]
           IN  /\ DictHas(t.leaves, c.v.assigned_leaf)
               /\ c.k \in DictGet(t.leaves, c.v.assigned_leaf).assigned_clients
    /\ \A i \in 1..Len(t.leaves) :
           LET l == t.leaves[i]
           IN  /\ DictHas(t.clusters, l.v.cluster)
               /\ l.k \in DictGet(t.clusters, l.v.cluster).managed_leaves
    /\ \A i \in 1..Len(t.clusters) :
           LET c == t.clusters[i]
           IN  /\ DictHas(t.super_clusters, c.v.super_cluster)
               /\ c.k \in DictGet(t.super_clusters, c.v.super_cluster).managed_clusters

\* The leaves whose assigned_clients holds client_id.
LeavesHolding(t, client_id) ==
    {t.leaves[i].k : i \in {j \in 1..Len(t.leaves) : client_id \in t.leaves[j].v.assigned_clients}}

\* A step that is a with_client call on the builder.
WithClientStep == Built /\ last'.op = "with_client"

\* t2 is t with one more client, the newest, assigned to leaf_id and listed there.
AttachedTo(t, t2, leaf_id) ==
    /\ Len(t2.clients) = Len(t.clients) + 1
    /\ NewestClient(t2).assigned_leaf = leaf_id
    /\ DictHas(t2.leaves, leaf_id)
    /\ NewestClient(t2).client_id \in DictGet(t2.leaves, leaf_id).assigned_clients

(* ------------------------------------------------------------------- claims *)

\* C1: after build(), whatever constructor and with_client calls came before,
\* the returned topology has no dangling owner reference: every cluster's
\* super_cluster, every leaf's cluster and every client's assigned_leaf is a key
\* of the map one tier up.
C1_NoDanglingOwner ==
    \A i \in 1..Len(returned) : NoDangling(heap[returned[i]])

C1_Witness ==
    /\ Len(returned) > 0
    /\ last.op = "build"
    /\ preferred_given
    /\ Len(heap[returned[1]].clusters) = Len(regions)
    /\ Len(heap[returned[1]].clients) = MaxClients

\* C2: in every state of the builder, before or after build(), each parent's
\* membership set holds every object naming it as owner (clients in their
\* leaf's assigned_clients, leaves in their cluster's managed_leaves, clusters
\* in their super-cluster's managed_clusters).
C2_BidirectionalConsistency ==
    Built => Bidirectional(Topology)

C2_Witness ==
    /\ Built
    /\ Len(Topology.leaves) = Len(regions) * LeavesPerCluster
    /\ Len(Topology.clients) >= 2
    /\ Topology.version = 1
    /\ last.op = "with_client"

\* C3: when every with_client call so far named no preferred leaf and the
\* builder has K >= 1 leaves, the client of call index i (0-based) is assigned
\* to the leaf at index i mod K of leaf-addition order.
C3_RoundRobin ==
    (Built /\ ~preferred_given /\ LeafCount(Topology) >= 1) =>
        \A i \in 1..Len(Topology.clients) :
            Topology.clients[i].v.assigned_leaf
                = LeafAt(Topology, (i - 1) % LeafCount(Topology))

\* Ten clients over nine leaves: the rotation has wrapped around.
C3_Witness ==
    /\ Built
    /\ ~preferred_given
    /\ LeafCount(Topology) = 9
    /\ Len(Topology.clients) > LeafCount(Topology)

\* C4: a with_client call without a preferred leaf assigns the new client to
\* the leaf at position (clients already in the topology, however placed)
\* mod (number of leaves).
C4_RotationIndexIsClientCount ==
    [][(WithClientStep /\ last'.preferred_leaf = None /\ LeafCount(Topology) >= 1) =>
          /\ last'.raised = None
          /\ AttachedTo(Topology, heap'[builder],
                        LeafAt(Topology, Len(Topology.clients) % LeafCount(Topology)))]_vars

\* A client placed by preference came first, and the count still drives the rotation.
C4_Witness ==
    /\ Built
    /\ preferred_given
    /\ last.op = "with_client"
    /\ last.preferred_leaf = None
    /\ LeafCount(Topology) = 9
    /\ Len(Topology.clients) > LeafCount(Topology)
    /\ Topology.clients[1].v.assigned_leaf = "us-west-leaf-2"

\* C5: with_client without a preferred leaf on a topology with zero leaves
\* raises ValueError and changes nothing of the topology.
C5_NoLeavesAvailable ==
    [][(WithClientStep /\ last'.preferred_leaf = None /\ LeafCount(Topology) = 0) =>
          /\ last'.raised = Some("ValueError")
          /\ heap' = heap
          /\ returned' = returned]_vars

C5_Witness ==
    /\ Built
    /\ LeafCount(Topology) = 0
    /\ last.op = "with_client"
    /\ last.preferred_leaf = None
    /\ last.raised = Some("ValueError")
    /\ Topology.clients = << >>

\* A preferred leaf that is no key of the topology's leaves.
UnknownPreference(t, preferred_leaf) ==
    preferred_leaf # None /\ ~DictHas(t.leaves, TheValue(preferred_leaf))

\* C6 as stated: a with_client call whose preferred leaf is no key of
\* topology.leaves is rejected and attaches the client to no leaf.
C6_UnknownPreferenceRejected ==
    [][(WithClientStep /\ UnknownPreference(Topology, last'.preferred_leaf)) =>
          /\ last'.raised # None
          /\ heap' = heap]_vars

\* C6 as amended: a preferred leaf that is no key of topology.leaves is
\* ignored; the client is placed by round-robin, on the leaf at index
\* (client count mod leaf count), and the call is rejected with ValueError,
\* changing nothing, only when the topology has no leaves.
C6_UnknownPreferenceFallsBack ==
    [][(WithClientStep /\ UnknownPreference(Topology, last'.preferred_leaf)) =>
          IF LeafCount(Topology) = 0
          THEN last'.raised = Some("ValueError") /\ heap' = heap
          ELSE /\ last'.raised = None
               /\ AttachedTo(Topology, heap'[builder],
                             LeafAt(Topology, Len(Topology.clients) % LeafCount(Topology)))]_vars

C6_Witness ==
    /\ Built
    /\ last.op = "with_client"
    /\ UnknownPreference(Topology, last.preferred_leaf)
    /\ last.raised = None
    /\ LeafCount(Topology) = 9
    /\ Len(Topology.clients) = 3
    /\ NewestClient(Topology).assigned_leaf = "us-east-leaf-3"

\* C7: a with_client call whose preferred leaf is a key of topology.leaves
\* assigns the new client to exactly that leaf and adds its id to that leaf's
\* assigned_clients, whatever the client count.
C7_PreferredLeafHonoured ==
    [][(WithClientStep /\ last'.preferred_leaf # None
            /\ DictHas(Topology.leaves, TheValue(last'.preferred_leaf))) =>
          /\ last'.raised = None
          /\ AttachedTo(Topology, heap'[builder], TheValue(last'.preferred_leaf))]_vars

\* The rotation would have chosen another leaf.
C7_Witness ==
    /\ Built
    /\ last.op = "with_client"
    /\ last.preferred_leaf = Some("us-west-leaf-2")
    /\ Len(Topology.clients) = 3
    /\ NewestClient(Topology).assigned_leaf = "us-west-leaf-2"
    /\ LeafAt(Topology, 2) # "us-west-leaf-2"

\* C8: every client of the clients map is held by exactly one leaf's
\* assigned_clients, and that leaf is the client's assigned_leaf.
C8_ClientOnExactlyOneLeaf ==
    Built =>
        \A i \in 1..Len(Topology.clients) :
            LeavesHolding(Topology, Topology.clients[i].k)
                = {Topology.clients[i].v.assigned_leaf}

C8_Witness ==
    /\ Built
    /\ LeafCount(Topology) = 9
    /\ Len(Topology.clients) >= 3
    /\ \E i, j \in 1..Len(Topology.clients) :
           /\ i # j
           /\ Topology.clients[i].v.assigned_leaf = Topology.clients[j].v.assigned_leaf

\* C9: a build() that directly follows a build() returns a topology with the
\* same topology_id, the same four maps and version 1 as the first, and
\* changes nothing of the topology.
C9_BuildIdempotent ==
    [][(Built /\ last.op = "build" /\ last'.op = "build") =>
          /\ heap' = heap
          /\ heap'[returned'[Len(returned')]] = heap[returned[Len(returned)]]
          /\ heap'[returned'[Len(returned')]].version = 1]_vars

C9_Witness ==
    /\ Built
    /\ last.op = "build"
    /\ last.prev = "build"
    /\ Len(returned) >= 2
    /\ Len(Topology.clients) >= 1

\* C10 as stated: a with_client call after build() changes neither the clients
\* map nor the leaf membership sets of a topology build() returned earlier.
C10_ReturnedUnaffectedByBuilder ==
    [][WithClientStep =>
          \A i \in 1..Len(returned) :
              /\ heap'[returned[i]].clients = heap[returned[i]].clients
              /\ heap'[returned[i]].leaves = heap[returned[i]].leaves]_vars

\* C10 as amended: build() hands back the builder's own topology object, not a
\* copy, so a successful with_client call made on the builder after build()
\* adds the new client to the clients map and to a leaf membership set of
\* every topology build() returned earlier; their version stays 1 and their
\* topology_id is unchanged.
C10_ReturnedIsBuilderTopology ==
    [][(WithClientStep /\ last'.raised = None) =>
          \A i \in 1..Len(returned) :
              /\ returned[i] = builder
              /\ Len(heap'[returned[i]].clients) = Len(heap[returned[i]].clients) + 1
              /\ NewestClient(heap'[returned[i]]).client_id
                     \in DictGet(heap'[returned[i]].leaves,
                                 NewestClient(heap'[returned[i]]).assigned_leaf).assigned_clients
              /\ heap'[returned[i]].version = 1
              /\ heap'[returned[i]].topology_id = heap[returned[i]].topology_id]_vars

C10_Witness ==
    /\ Built
    /\ Len(returned) >= 1
    /\ last.op = "with_client"
    /\ last.prev = "build"
    /\ last.raised = None
    /\ Len(heap[returned[1]].clients) >= 1

(* ------------------------------------------------------------ C13, C14 *)

\* The content-address recomputed from the fields an event stores.
RecomputedCid(event) ==
    sha256(json_dumps(event_content(event.payload, event.source_tier, event.node_id,
                                    event.previous_cid, event.timestamp)))

\* Two logged create calls were given the same hashed arguments.
SameArguments(a, b) ==
    /\ a.payload = b.payload
    /\ a.source_tier = b.source_tier
    /\ a.node_id = b.node_id
    /\ a.previous_cid = b.previous_cid

\* C13: every event returned by CimEvent.create has an event_cid equal to the
\* hash of its own stored payload, source_tier, node_id, timestamp (in ISO
\* form) and previous_cid, whatever the clock does during the call.
C13_CidReproducible ==
    \A i \in DOMAIN created : created[i].event.event_cid = RecomputedCid(created[i].event)

\* C14: two CimEvent.create calls yield the same event_cid exactly when they
\* were given the same payload, source_tier, node_id and previous_cid and
\* hashed the same instant; the correlation and causation ids play no part.
C14_CidDeterminism ==
    \A i, j \in DOMAIN created :
        (SameArguments(created[i], created[j]) /\ created[i].t_content = created[j].t_content)
            <=> (created[i].event.event_cid = created[j].event.event_cid)

\* Two calls with the same arguments at the same instant, carrying different
\* correlation and causation ids, returned the same event_cid.
C14_Witness ==
    /\ Len(created) = 2
    /\ SameArguments(created[1], created[2])
    /\ created[1].t_content = created[2].t_content
    /\ created[1].event.correlation_id # created[2].event.correlation_id
    /\ created[1].event.causation_id # created[2].event.causation_id
    /\ created[1].event.event_cid = created[2].event.event_cid

(* ------------------------------------------------------------ C11, C12 *)

\* The live topology of the server.
Live == TheValue(cim_topology)

\* The last command was this one and reported success.
Succeeded(command) == response.command = command /\ response.success

\* C11: a builder's topology has version 0 until build() and 1 from then on,
\* and the server's live topology, rebuilt by every create_cim_topology and
\* add_cim_client, always has version 1.
C11_VersionZeroThenOne ==
    /\ builder # 0 => heap[builder].version = (IF returned = << >> THEN 0 ELSE 1)
    /\ cim_topology # None => Live.version = 1

\* add_cim_client has succeeded on a topology that create_cim_topology had
\* built: build() has run a second time on it.
C11_Witness ==
    /\ Succeeded("add_cim_client")
    /\ Len(event_chain) = 2
    /\ Live.version = 1

\* C12: the server's event chain is a hash chain: the first event has no
\* previous_cid and every later event's previous_cid is the event_cid of the
\* event before it.
C12_HashChain ==
    \A i \in DOMAIN event_chain :
        event_chain[i].previous_cid =
            (IF i = 1 THEN None ELSE Some(event_chain[i - 1].event_cid))

(* ------------------------------------------------------- C15, C16, C17, C18 *)

\* The log after the step is the log before it with one event added at the end.
OneEventAppended ==
    /\ Len(event_chain') = Len(event_chain) + 1
    /\ SubSeq(event_chain', 1, Len(event_chain)) = event_chain

\* The step is the action of this command: it answers under the command's
\* name.
Ran(command, action) == response'.command = command /\ action

\* The payload event_type of the event at position i of the log.
EventTypeAt(i) == event_chain[i].payload.event_type

\* C15: every create_cim_topology, add_cim_client and simulate_cim_event
\* command that reports success extends event_chain by exactly one event,
\* added at the end.
C15_SuccessAppendsOneEvent ==
    [][(\/ Ran("create_cim_topology", CreateCimTopology)
        \/ Ran("add_cim_client", AddCimClient)
        \/ Ran("simulate_cim_event", SimulateCimEvent)) /\ response'.success
          => OneEventAppended]_vars

\* A successful add_cim_client has put its ClientRegistered event behind the
\* TopologyCreated event.
C15_Witness ==
    /\ Succeeded("add_cim_client")
    /\ Len(event_chain) = 2
    /\ EventTypeAt(1) = "TopologyCreated"
    /\ EventTypeAt(2) = "ClientRegistered"
    /\ event_chain[2].event_cid = response.data.event_cid

\* C16: get_cim_state, visualize_cim_topology and generate_cim_config leave
\* event_chain and every field of the live topology unchanged, whatever the
\* state and the arguments.
C16_ReadsLeaveStateAlone ==
    [][(\/ Ran("get_cim_state", GetCimState)
        \/ Ran("visualize_cim_topology", VisualizeCimTopology)
        \/ Ran("generate_cim_config", GenerateCimConfig))
          => UNCHANGED <<cim_topology, event_chain>>]_vars

\* get_cim_state has answered on a server holding a topology and a log.
C16_Witness ==
    /\ Succeeded("get_cim_state")
    /\ response.data.topology_exists
    /\ response.data.event_chain_length = 2
    /\ cim_topology # None
    /\ Len(event_chain) = 2

\* C17: event_chain never shrinks, and an event in it keeps its index and
\* its fields, also when create_cim_topology replaces the live topology.
C17_AppendOnly ==
    [][/\ Len(event_chain') >= Len(event_chain)
       /\ SubSeq(event_chain', 1, Len(event_chain)) = event_chain]_vars

\* create_cim_topology has replaced a topology whose creation and whose log
\* entry are still first in the log.
C17_Witness ==
    /\ Succeeded("create_cim_topology")
    /\ Len(event_chain) = 2
    /\ EventTypeAt(1) = "TopologyCreated"
    /\ EventTypeAt(2) = "TopologyCreated"
    /\ event_chain[1].payload.topology_type # event_chain[2].payload.topology_type
    /\ Live.topology_id # 1

\* C18: a command that returns success == false leaves the live topology
\* and event_chain as they were before it.
C18_FailureLeavesStateAlone ==
    [][NextServer /\ ~response'.success => UNCHANGED <<cim_topology, event_chain>>]_vars

(* ------------------------------------------------------------ C19, C20 *)

\* create_cim_topology has just made the live topology from this preset.
JustCreated(topology_type) ==
    /\ Succeeded("create_cim_topology")
    /\ response.data.topology_type = topology_type

\* The clusters of t that manage the leaf.
ClustersManaging(t, leaf_id) ==
    {c \in DictKeySet(t.clusters) : leaf_id \in DictGet(t.clusters, c).managed_leaves}

\* The (super-cluster, cluster, leaf) paths of a hierarchy view.
HierarchyPaths(hierarchy) ==
    UNION {UNION {{<<s, c, l>> : l \in DOMAIN hierarchy.super_clusters[s].clusters[c].leaves} :
                     c \in DOMAIN hierarchy.super_clusters[s].clusters} :
              s \in DOMAIN hierarchy.super_clusters}

\* C19: the production preset has exactly 1 super-cluster, 3 clusters and 9
\* leaves, every cluster manages exactly 3 leaves, every leaf is owned by
\* exactly one cluster, and its 4 clients are assigned to 4 distinct leaves.
C19_ProductionPreset ==
    JustCreated("production") =>
        /\ Len(Live.super_clusters) = 1
        /\ Len(Live.clusters) = 3
        /\ Len(Live.leaves) = 9
        /\ \A i \in 1..Len(Live.clusters) :
              /\ Cardinality(Live.clusters[i].v.managed_leaves) = 3
              /\ Live.clusters[i].v.managed_leaves \subseteq DictKeySet(Live.leaves)
        /\ \A i \in 1..Len(Live.leaves) :
              /\ ClustersManaging(Live, Live.leaves[i].k) = {Live.leaves[i].v.cluster}
        /\ Len(Live.clients) = 4
        /\ Cardinality({Live.clients[i].v.assigned_leaf : i \in 1..Len(Live.clients)}) = 4
        /\ \A i \in 1..Len(Live.clients) :
              LeavesHolding(Live, Live.clients[i].k) = {Live.clients[i].v.assigned_leaf}

\* create_cim_topology has made a production topology.
C19_Witness ==
    /\ JustCreated("production")
    /\ response.data.tiers.leaves = 9
    /\ {Live.clients[i].v.name : i \in 1..Len(Live.clients)}
           = {"Web Application", "Mobile Service", "Admin CLI", "Developer Workspace"}

\* C20: the development preset has exactly one super-cluster, one cluster and
\* one leaf, version 1 and its two clients on that leaf, and its summary
\* hierarchy holds exactly one super-cluster -> cluster -> leaf path, whose
\* client list is exactly those two clients.
C20_DevelopmentPreset ==
    JustCreated("development") =>
        LET hierarchy == get_tier_summary(Live).hierarchy
            client_ids == {Live.clients[i].k : i \in 1..Len(Live.clients)}
        IN  /\ DictKeys(Live.super_clusters) = <<"dev-super">>
            /\ DictKeys(Live.clusters) = <<"dev-cluster">>
            /\ DictKeys(Live.leaves) = <<"dev-leaf">>
            /\ Live.version = 1
            /\ [i \in 1..Len(Live.clients) |->
                   <<Live.clients[i].v.name, Live.clients[i].v.client_type>>]
                  = DevelopmentClients
            /\ Cardinality(client_ids) = 2
            /\ \A i \in 1..Len(Live.clients) : Live.clients[i].v.assigned_leaf = "dev-leaf"
            /\ DictGet(Live.leaves, "dev-leaf").assigned_clients = client_ids
            /\ DOMAIN hierarchy.super_clusters = {"dev-super"}
            /\ DOMAIN hierarchy.super_clusters["dev-super"].clusters = {"dev-cluster"}
            /\ HierarchyPaths(hierarchy) = {<<"dev-super", "dev-cluster", "dev-leaf">>}
            /\ hierarchy.super_clusters["dev-super"].clusters["dev-cluster"]
                  .leaves["dev-leaf"].clients = client_ids
            /\ response.data.hierarchy = hierarchy

\* create_cim_topology has made a development topology and reported its
\* hierarchy.
C20_Witness ==
    /\ JustCreated("development")
    /\ response.data.tiers = [super_clusters |-> 1, clusters |-> 1, leaves |-> 1, clients |-> 2]
    /\ Cardinality(HierarchyPaths(response.data.hierarchy)) = 1

(* ------------------------------------------------------------------ C21 *)

\* The counter a clock holds for a node: 0 for a node it has no entry for.
Counter(clocks, node_id) == DictGetOr(clocks, node_id, 0)

\* The larger of two counters.
Larger(a, b) == IF a >= b THEN a ELSE b

\* C21: no tick or update ever lowers a node's counter; tick(node) raises
\* that node's counter by exactly 1 and leaves the others alone; update(other)
\* sets every counter to the larger of its own and other's value.
C21_VectorClockMonotone ==
    [][/\ \A n \in ClockNodes : Counter(vector_clock', n) >= Counter(vector_clock, n)
       /\ \A node_id \in ClockNodes :
             VcTick(node_id) =>
                 \A n \in ClockNodes :
                     Counter(vector_clock', n) =
                         Counter(vector_clock, n) + (IF n = node_id THEN 1 ELSE 0)
       /\ \A other \in OtherClocks \cup {vector_clock} :
             VcUpdate(other) =>
                 \A n \in ClockNodes :
                     Counter(vector_clock', n) =
                         Larger(Counter(vector_clock, n), Counter(other, n))]_vars

\* A clock that was ticked and merged: it is ahead of a clock passed to
\* update on one node and level with it on another.
C21_Witness ==
    /\ Counter(vector_clock, "leaf-a") = 3
    /\ Counter(vector_clock, "leaf-c") = 3
    /\ Counter(vector_clock, "leaf-b") = 1
    /\ DictKeys(vector_clock) = <<"leaf-a", "leaf-c", "leaf-b">>

(* ------------------------------------------------------------------ C22 *)

\* The "super_clusters" mapping of the hierarchy view h, empty when h is {}.
SupersOf(t, h) == IF t.super_clusters = << >> THEN << >> ELSE h.super_clusters

\* The (super-cluster, cluster) paths of the super-cluster mapping sv.
ClusterPaths(sv) == UNION {{<<s, c>> : c \in DOMAIN sv[s].clusters} : s \in DOMAIN sv}

\* The (super-cluster, cluster, leaf) paths of the super-cluster mapping sv.
LeafPaths(sv) ==
    UNION {{<<s, c, l>> : l \in DOMAIN sv[s].clusters[c].leaves} :
              <<s, c>> \in ClusterPaths(sv)}

\* The client list under the leaf path p of the super-cluster mapping sv.
ClientsAt(sv, p) == sv[p[1]].clusters[p[2]].leaves[p[3]].clients

RECURSIVE SumOver(_, _)
\* The sum of f over the set S.
SumOver(f, S) ==
    IF S = {} THEN 0 ELSE LET x == CHOOSE y \in S : TRUE IN f[x] + SumOver(f, S \ {x})

\* The tier counts are the map sizes, and the paths cp and lp of the view sv
\* hold every cluster, leaf and client of t exactly once, under its owner.
SummaryMatches(t, tiers, sv, cp, lp) ==
    /\ tiers = [super_clusters |-> Len(t.super_clusters),
                clusters       |-> Len(t.clusters),
                leaves         |-> Len(t.leaves),
                clients        |-> Len(t.clients)]
    /\ DOMAIN sv = DictKeySet(t.super_clusters)
    /\ \A i \in 1..Len(t.clusters) :
          {p \in cp : p[2] = t.clusters[i].k}
              = {<<t.clusters[i].v.super_cluster, t.clusters[i].k>>}
    /\ \A i \in 1..Len(t.leaves) :
          {p \in lp : p[3] = t.leaves[i].k}
              = {<<DictGet(t.clusters, t.leaves[i].v.cluster).super_cluster,
                   t.leaves[i].v.cluster, t.leaves[i].k>>}
    /\ \A i \in 1..Len(t.clients) :
          {p \in lp : t.clients[i].k \in ClientsAt(sv, p)}
              = {p \in lp : p[3] = t.clients[i].v.assigned_leaf}
    /\ SumOver([p \in lp |-> Cardinality(ClientsAt(sv, p))], lp) = tiers.clients

\* The summary of t, taken once, matches t.
SummaryOf(t, s) ==
    SummaryMatches(t, s.tiers, SupersOf(t, s.hierarchy),
                   ClusterPaths(SupersOf(t, s.hierarchy)),
                   LeafPaths(SupersOf(t, s.hierarchy)))

\* C22: for every topology made by the presets and with_client, the summary's
\* tier counts are the sizes of the four maps, and its hierarchy holds every
\* cluster, every leaf and every client exactly once, each under its owner, so
\* that it lists as many client ids as tiers.clients.
C22_SummaryMatchesTopology == Built => SummaryOf(Topology, get_tier_summary(Topology))

\* A production topology with more clients than leaves has been summarised.
C22_Witness ==
    /\ Built
    /\ Len(Topology.leaves) = 9
    /\ Len(Topology.clients) = 10
    /\ Cardinality(LeafPaths(build_hierarchy_view(Topology).super_clusters)) = 9

(* ------------------------------------------------------------------ C23 *)

\* The ids that the membership sets of the map d name, by field.
Referenced(d, field) == UNION {d[i].v[field] : i \in 1..Len(d)}

\* The client ids listed anywhere in the super-cluster mapping sv.
ListedClients(sv) == UNION {ClientsAt(sv, p) : p \in LeafPaths(sv)}

\* No id that t's membership sets name but t's maps lack is in the view sv.
MissingOmitted(t, sv) ==
    /\ \A c \in Referenced(t.super_clusters, "managed_clusters") \ DictKeySet(t.clusters) :
          \A p \in ClusterPaths(sv) : p[2] # c
    /\ \A l \in Referenced(t.clusters, "managed_leaves") \ DictKeySet(t.leaves) :
          \A p \in LeafPaths(sv) : p[3] # l
    /\ \A c \in Referenced(t.leaves, "assigned_clients") \ DictKeySet(t.clients) :
          c \notin ListedClients(sv)

\* C23: for any topology value, get_tier_summary returns a summary, and a
\* cluster, leaf or client id that a membership set names but that is missing
\* from its tier's map is omitted from the hierarchy view.
C23_MissingChildOmitted ==
    tier_summary # None =>
        MissingOmitted(TheValue(subject),
                       SupersOf(TheValue(subject), TheValue(tier_summary).hierarchy))

(* ------------------------------------------------------------ C24, C29 *)

\* The value of the line read last, if it is a JSON text.
LineValue == json_loads(TheValue(line))

\* The line read last is a tools/call request.
ToolsCallRead ==
    /\ line # None
    /\ LineValue # None
    /\ TheValue(LineValue).type = "object"
    /\ TheValue(LineValue).method = "tools/call"

\* The response mapping of the line printed last.
LastResponse == stdout[Len(stdout)].json

\* C24: for every tools/call request the response line carries a "result"
\* member whose content[0].text is the JSON-encoded command result, and no
\* "error" member.
C24_ToolsCallResult ==
    ToolsCallRead =>
        /\ stdout # << >>
        /\ "result" \in DOMAIN LastResponse
        /\ "error" \notin DOMAIN LastResponse
        /\ LastResponse.result.content[1].text = json_dumps(response)

\* The id a response to the line read by this step should carry: the id of the
\* request on the line, null (None) for a line that is no JSON text.
IdOfLine ==
    IF json_loads(TheValue(line')) = None
    THEN None
    ELSE get_id(TheValue(json_loads(TheValue(line')))).id

\* A step of main that read a line of input.
ReadStep == running /\ line' # Some(Eof) /\ (stdout' # stdout \/ ~running')

\* C29: each input line produces exactly one response line, whose id is the id
\* of the request on that line; for a line that is no JSON text the response
\* is an error with code -32603 and id null.
C29_OneResponsePerLine ==
    [][ReadStep =>
          /\ Len(stdout') = Len(stdout) + 1
          /\ stdout'[Len(stdout')].json.id = IdOfLine
          /\ json_loads(TheValue(line')) = None =>
                /\ "error" \in DOMAIN stdout'[Len(stdout')].json
                /\ stdout'[Len(stdout')].json.error.code = 0 - 32603]_vars

(* ------------------------------------------------------------------ C25 *)

\* C25: the nodes that get_sdn_state lists are the nodes of the session: every
\* node id that add_sdn_node has reported success for is listed, and a node
\* that was never added is not.
C25_StateReflectsCommands ==
    sdn_response.command = "get_sdn_state" =>
        /\ sdn_response.success
        /\ DOMAIN sdn_response.data.nodes = sdn_added

(* ------------------------------------------------------------------ C26 *)

\* The positions of the leaves whose assigned_clients differ between t and t2.
ChangedLeaves(t, t2) ==
    {i \in 1..Len(t.leaves) : t2.leaves[i].v.assigned_clients # t.leaves[i].v.assigned_clients}

\* t2 is t with exactly one new client, under a fresh id that exactly one leaf
\* gained, and nothing else of what the claim names changed.
OneClientAdded(t, t2) ==
    /\ Len(t2.clients) = Len(t.clients) + 1
    /\ SubSeq(t2.clients, 1, Len(t.clients)) = t.clients
    /\ t2.clients[Len(t2.clients)].k \notin DictKeySet(t.clients)
    /\ DictKeys(t2.leaves) = DictKeys(t.leaves)
    /\ Cardinality(ChangedLeaves(t, t2)) = 1
    /\ \A i \in ChangedLeaves(t, t2) :
          /\ t2.clients[Len(t2.clients)].k \notin t.leaves[i].v.assigned_clients
          /\ t2.leaves[i].v.assigned_clients
                = t.leaves[i].v.assigned_clients \cup {t2.clients[Len(t2.clients)].k}
    /\ t2.super_clusters = t.super_clusters
    /\ t2.clusters = t.clusters
    /\ t2.topology_id = t.topology_id

\* C26: a with_client call that raises nothing adds exactly one client: the
\* clients map grows by one entry under an id that was no key before, exactly
\* one leaf's assigned_clients grows by that id, and super_clusters, clusters,
\* the leaf ids, the other leaves' assigned_clients, the existing clients
\* (their assigned_leaf included) and topology_id stay as they were.
C26_WithClientFrame ==
    [][(WithClientStep /\ last'.raised = None) => OneClientAdded(Topology, Topology')]_vars

\* A with_client call has succeeded on a topology of several leaves that
\* already held clients.
C26_Witness ==
    /\ Built
    /\ last.op = "with_client"
    /\ last.raised = None
    /\ Len(Topology.leaves) = 9
    /\ Len(Topology.clients) >= 3

(* ------------------------------------------------------------------ C27 *)

\* The sizes of the four tier maps of t.
TierCounts(t) ==
    [super_clusters |-> Len(t.super_clusters),
     clusters       |-> Len(t.clusters),
     leaves         |-> Len(t.leaves),
     clients        |-> Len(t.clients)]

\* C27: when a topology exists, scale_cim_tier reports success with the
\* current tier counts, whatever the tier, action and count, and changes
\* neither the live topology nor the event chain.
C27_ScaleIsSimulation ==
    [][(Ran("scale_cim_tier", ScaleCimTier) /\ cim_topology # None)
          => /\ response'.success
             /\ response'.data.current_tiers = TierCounts(Live)
             /\ UNCHANGED <<cim_topology, event_chain>>]_vars

\* scale_cim_tier has been asked to remove from a topology that has clients.
C27_Witness ==
    /\ Succeeded("scale_cim_tier")
    /\ response.data.action = "remove"
    /\ cim_topology # None
    /\ response.data.current_tiers.clients >= 3
    /\ Len(event_chain) = 2

(* ------------------------------------------------------------------ C28 *)

\* C28: a successful add_cim_client reports the client it just added: the
\* client_id of the response and of the appended ClientRegistered event was no
\* key of clients before the call, and the reported assigned_leaf is the leaf
\* this call attached that client to, also when a client of the same name and
\* type existed already.
C28_ReportsAddedClient ==
    [][(Ran("add_cim_client", AddCimClient) /\ response'.success)
          => /\ response'.data.client_id \notin DictKeySet(Live.clients)
             /\ event_chain'[Len(event_chain')].payload.client_id = response'.data.client_id
             /\ response'.data.client_id = NewestClient(TheValue(cim_topology')).client_id
             /\ response'.data.assigned_leaf
                   = NewestClient(TheValue(cim_topology')).assigned_leaf]_vars

(* ------------------------------------------------------------------ C30 *)

\* The commands that need a topology.
NeedTopology ==
    {"add_cim_client", "scale_cim_tier", "generate_cim_config", "simulate_cim_event",
     "visualize_cim_topology"}

\* The latest answer is one a server without a topology gives.
AnsweredWithoutTopology ==
    /\ response.command \in NeedTopology => ~response.success
    /\ response.command = "get_cim_state" =>
          response.success /\ ~response.data.topology_exists

====
